---------------------------- MODULE Spec2Model ----------------------------
(***************************************************************************)
(* MCSManager plugin (src/main.py): the instance directory kept in         *)
(* MCSMPlugin.instance_data, the lookup _get_instance_by_identifier, the   *)
(* InstanceCooldownManager, the client make_mcsm_request and the command   *)
(* handlers mcsm_list, mcsm_start, mcsm_stop, mcsm_cmd and mcsm_status.    *)
(*                                                                         *)
(* Python strings are sequences of one-character strings, so that          *)
(* str.isdigit, int(), str(), str.strip and the ordinal comparison used by *)
(* list.sort are computed and not assumed.  A handler is an asyncio        *)
(* coroutine: one action is the code between two suspension points (an     *)
(* await of make_mcsm_request, or the handler's last yield).  Of a text a  *)
(* handler yields, its kind and the values it is formatted with (an error  *)
(* string, the figures of the status summary) are kept.  The field         *)
(* 'status' of an instance is left out: no lookup, cooldown or remote call *)
(* reads it.                                                               *)
(***************************************************************************)
EXTENDS Integers, Sequences, FiniteSets, TLC

\* ------------------------------------------------------------------ bounds

\* Largest position string an operator types, beyond any snapshot size.
MaxPosition == 5
\* The clock stops advancing this many time units after start.
MaxElapsed == 12
\* Largest running or total figure a node of the overview advertises.
MaxFigure == 2

\* ------------------------------------------------------------ python strings

Range(s) == {s[i] : i \in DOMAIN s}

\* Code point order of the characters in use (space < digits < A-Z < a-z < CJK).
CodeOrder == <<" ", "0", "1", "2", "3", "4", "5", "6", "7", "8", "9",
               "A", "B", "a", "n", "u", "N">>

Ord(c) == CHOOSE i \in DOMAIN CodeOrder : CodeOrder[i] = c

DigitChars == <<"0", "1", "2", "3", "4", "5", "6", "7", "8", "9">>

DigitVal(c) == (CHOOSE i \in DOMAIN DigitChars : DigitChars[i] = c) - 1

\* str.isdigit(): non-empty and every character a digit.
IsDigit(s) == Len(s) > 0 /\ \A i \in DOMAIN s : s[i] \in Range(DigitChars)

\* int(s) for a string of digits.
RECURSIVE IntOf(_)
IntOf(s) ==
    IF s = <<>> THEN 0
    ELSE 10 * IntOf(SubSeq(s, 1, Len(s) - 1)) + DigitVal(s[Len(s)])

\* str(n) for n >= 0.
RECURSIVE StrOf(_)
StrOf(n) ==
    IF n < 10 THEN <<DigitChars[n + 1]>>
    ELSE StrOf(n \div 10) \o <<DigitChars[(n % 10) + 1]>>

\* str.strip(): leading and trailing blanks removed.
RECURSIVE LStrip(_)
LStrip(s) == IF s # <<>> /\ Head(s) = " " THEN LStrip(Tail(s)) ELSE s

RECURSIVE RStrip(_)
RStrip(s) ==
    IF s # <<>> /\ s[Len(s)] = " " THEN RStrip(SubSeq(s, 1, Len(s) - 1)) ELSE s

Strip(s) == RStrip(LStrip(s))

\* a < b for Python str: lexicographic on code points, a proper prefix first.
RECURSIVE StrLess(_, _)
StrLess(a, b) ==
    IF b = <<>> THEN FALSE
    ELSE IF a = <<>> THEN TRUE
    ELSE IF Head(a) # Head(b) THEN Ord(Head(a)) < Ord(Head(b))
    ELSE StrLess(Tail(a), Tail(b))

\* The placeholder name of an instance without nickname.
Unnamed == <<"N">>

\* dict.get(key, default) and dict[key] = value on a function.
DictGet(d, k, default) == IF k \in DOMAIN d THEN d[k] ELSE default

DictSet(d, k, v) == [x \in DOMAIN d \cup {k} |-> IF x = k THEN v ELSE d[x]]

EmptyDict == [x \in {} |-> <<>>]


\* ------------------------------------------------------- InstanceCooldownManager

\* The cooldown window of check_cooldown, in seconds.
CooldownWindow == 10

\* check_cooldown with <= for <.
check_cooldown_inclusive(cd, t, instance_id) ==
    t - DictGet(cd, instance_id, 0) <= CooldownWindow

\* check_cooldown at clock value t: (time.time() - cooldowns.get(id, 0)) < 10.
check_cooldown(cd, t, instance_id) ==
    t - DictGet(cd, instance_id, 0) < CooldownWindow

\* set_cooldown at clock value t: cooldowns[id] = time.time().
set_cooldown(cd, t, instance_id) == DictSet(cd, instance_id, t)

\* ------------------------------------------------------------ instance directory

\* The result None of a lookup, and the outcome of an IndexError in it.
None == <<>>

IndexError == <<"IndexError">>

\* MCSMPlugin.__init__: the empty cache.
EmptyCache ==
    [instances |-> <<>>, name_to_id |-> EmptyDict, uuid_to_id |-> EmptyDict,
     ambiguous_names |-> {}]

\* One entry of all_instances from one element of a node's answer:
\* the nickname, or the placeholder when it is missing or empty.
ExtractInstance(instance, node_uuid) ==
    [name |-> IF instance.nickname # <<>> THEN instance.nickname ELSE Unnamed,
     uuid |-> instance.instanceUuid,
     daemon_id |-> node_uuid]

\* The list of instances in the 'data' of a node's answer: the answer wraps the
\* list in a dict under 'data', or is the bare list.
InstancesOf(data_block) ==
    IF data_block.shape = "dict" THEN data_block.data ELSE data_block.list

ExtractAll(data_block, node_uuid) ==
    [i \in DOMAIN InstancesOf(data_block) |->
        ExtractInstance(InstancesOf(data_block)[i], node_uuid)]

\* InsertByName placing an element before the elements of equal name.
RECURSIVE InsertBeforeEqual(_, _)
InsertBeforeEqual(sorted, x) ==
    IF sorted = <<>> THEN <<x>>
    ELSE IF ~StrLess(Head(sorted).name, x.name) THEN <<x>> \o sorted
    ELSE <<Head(sorted)>> \o InsertBeforeEqual(Tail(sorted), x)

\* list.sort(key=name) is stable: each element goes behind every element placed
\* before it whose name is not greater.
RECURSIVE InsertByName(_, _)
InsertByName(sorted, x) ==
    IF sorted = <<>> THEN <<x>>
    ELSE IF StrLess(x.name, Head(sorted).name) THEN <<x>> \o sorted
    ELSE <<Head(sorted)>> \o InsertByName(Tail(sorted), x)

RECURSIVE SortByName(_)
SortByName(all) ==
    IF all = <<>> THEN <<>>
    ELSE InsertByName(SortByName(SubSeq(all, 1, Len(all) - 1)), all[Len(all)])

\* name_counts after the counting loop.
RECURSIVE NameCounts(_)
NameCounts(all) ==
    IF all = <<>> THEN EmptyDict
    ELSE LET counts == NameCounts(SubSeq(all, 1, Len(all) - 1))
             name == all[Len(all)].name
         IN  DictSet(counts, name, DictGet(counts, name, 0) + 1)

\* AmbiguousNames with the threshold off by one: count > 2.
AmbiguousNamesOverTwo(all) ==
    {name \in DOMAIN NameCounts(all) : NameCounts(all)[name] > 2}

AmbiguousNames(all) ==
    {name \in DOMAIN NameCounts(all) : NameCounts(all)[name] > 1}

\* CacheReset without the line that empties uuid_to_id.
CacheResetKeepsIds(data, ambiguous_names) ==
    [data EXCEPT !.instances = <<>>, !.name_to_id = EmptyDict,
                 !.ambiguous_names = ambiguous_names]

\* CacheReset without the line that empties name_to_id.
CacheResetKeepsNames(data, ambiguous_names) ==
    [data EXCEPT !.instances = <<>>, !.uuid_to_id = EmptyDict,
                 !.ambiguous_names = ambiguous_names]

\* The four assignments that empty the cache before it is filled.
CacheReset(data, ambiguous_names) ==
    [data EXCEPT !.instances = <<>>, !.name_to_id = EmptyDict,
                 !.uuid_to_id = EmptyDict, !.ambiguous_names = ambiguous_names]

\* CacheAdd with both indices filled under 'if not is_ambiguous'.
CacheAddUniqueOnly(data, instance, current_index) ==
    LET id == <<instance.daemon_id, instance.uuid>>
        is_ambiguous == instance.name \in data.ambiguous_names
    IN  [data EXCEPT
            !.instances = Append(@, [index |-> StrOf(current_index),
                                     name |-> instance.name,
                                     uuid |-> instance.uuid,
                                     daemon_id |-> instance.daemon_id]),
            !.uuid_to_id = IF is_ambiguous THEN @
                           ELSE DictSet(@, instance.uuid, id),
            !.name_to_id = IF is_ambiguous THEN @
                           ELSE DictSet(@, instance.name, id)]

\* CacheAdd without 'if not is_ambiguous': every name goes into name_to_id.
CacheAddEveryName(data, instance, current_index) ==
    LET id == <<instance.daemon_id, instance.uuid>>
    IN  [data EXCEPT
            !.instances = Append(@, [index |-> StrOf(current_index),
                                     name |-> instance.name,
                                     uuid |-> instance.uuid,
                                     daemon_id |-> instance.daemon_id]),
            !.uuid_to_id = DictSet(@, instance.uuid, id),
            !.name_to_id = DictSet(@, instance.name, id)]

\* One round of the loop that fills the cache.
CacheAdd(data, instance, current_index) ==
    LET id == <<instance.daemon_id, instance.uuid>>
        is_ambiguous == instance.name \in data.ambiguous_names
    IN  [data EXCEPT
            !.instances = Append(@, [index |-> StrOf(current_index),
                                     name |-> instance.name,
                                     uuid |-> instance.uuid,
                                     daemon_id |-> instance.daemon_id]),
            !.uuid_to_id = DictSet(@, instance.uuid, id),
            !.name_to_id = IF is_ambiguous THEN @
                           ELSE DictSet(@, instance.name, id)]

RECURSIVE CacheFill(_, _, _)
CacheFill(data, all, current_index) ==
    IF all = <<>> THEN data
    ELSE CacheFill(CacheAdd(data, Head(all), current_index), Tail(all),
                   current_index + 1)

\* mcsm_list from the sort to the end of the loop: no await, no yield between.
RebuildCache(data, all_instances) ==
    LET sorted == SortByName(all_instances)
    IN  CacheFill(CacheReset(data, AmbiguousNames(sorted)), sorted, 1)

\* 0 < index <= len(instances)
PositionInRange(index, n) == 0 < index /\ index <= n

\* PyItem reading instances[index] where instances[index - 1] is meant.
PyItemNextOne(list, k) ==
    IF 0 <= k + 1 /\ k + 1 < Len(list)
    THEN <<list[k + 2].daemon_id, list[k + 2].uuid>>
    ELSE IndexError

\* instances[k] of a Python list, k counted from 0: a negative k counts from the
\* end, anything outside raises IndexError.
PyItem(list, k) ==
    IF 0 <= k /\ k < Len(list) THEN <<list[k + 1].daemon_id, list[k + 1].uuid>>
    ELSE IF -Len(list) <= k /\ k < 0
         THEN <<list[Len(list) + k + 1].daemon_id, list[Len(list) + k + 1].uuid>>
    ELSE IndexError

\* _get_instance_by_identifier without the lookup in uuid_to_id.
GetInstanceByNameOnly(data, raw) ==
    LET identifier == Strip(raw)
    IN  IF IsDigit(identifier)
           /\ PositionInRange(IntOf(identifier), Len(data.instances))
        THEN PyItem(data.instances, IntOf(identifier) - 1)
        ELSE IF identifier \in data.ambiguous_names THEN None
        ELSE IF identifier \in DOMAIN data.name_to_id
             THEN data.name_to_id[identifier]
        ELSE None

\* _get_instance_by_identifier: (daemon_id, uuid), or None.
GetInstanceByIdentifier(data, raw) ==
    LET identifier == Strip(raw)
    IN  IF IsDigit(identifier)
           /\ PositionInRange(IntOf(identifier), Len(data.instances))
        THEN PyItem(data.instances, IntOf(identifier) - 1)
        ELSE IF identifier \in data.ambiguous_names THEN None
        ELSE IF identifier \in DOMAIN data.name_to_id
             THEN data.name_to_id[identifier]
        ELSE IF identifier \in DOMAIN data.uuid_to_id
             THEN data.uuid_to_id[identifier]
        ELSE None

\* ------------------------------------------------------------------ remote client

\* A result of make_mcsm_request: the dict with 'status', 'data' and 'error'.
Result(status, data, error) == [status |-> status, data |-> data, error |-> error]

\* What the HTTP exchange of one request came to: a response with its status code
\* and its body (json: whether response.json() parses it, body: the parsed dict),
\* or the exception raised by the client.
HttpResponse(status_code, json, body) ==
    [kind |-> "response", status_code |-> status_code, json |-> json, body |-> body]

HttpRaise(exception) ==
    [kind |-> exception, status_code |-> 0, json |-> FALSE, body |-> <<>>]

\* make_mcsm_request without the 'except httpx.ReadTimeout' clause: a read
\* timeout reaches 'except Exception'.
make_mcsm_request_no_read_timeout(outcome) ==
    IF outcome.kind = "response"
    THEN IF outcome.status_code # 200
         THEN IF outcome.json THEN outcome.body
              ELSE Result(outcome.status_code, <<>>, "HTTP Error")
         ELSE IF outcome.json THEN outcome.body
              ELSE Result(500, <<>>, "JSON decode failed")
    ELSE IF outcome.kind = "ConnectTimeout" THEN Result(504, <<>>, "ConnectTimeout")
    ELSE Result(500, <<>>, "Exception")

\* make_mcsm_request from the exchange to the returned dict.
make_mcsm_request(outcome) ==
    IF outcome.kind = "response"
    THEN IF outcome.status_code # 200
         THEN IF outcome.json THEN outcome.body
              ELSE Result(outcome.status_code, <<>>, "HTTP Error")
         ELSE IF outcome.json THEN outcome.body
              ELSE Result(500, <<>>, "JSON decode failed")
    ELSE IF outcome.kind = "ConnectTimeout" THEN Result(504, <<>>, "ConnectTimeout")
    ELSE IF outcome.kind = "ReadTimeout" THEN Result(504, <<>>, "ReadTimeout")
    ELSE Result(500, <<>>, "Exception")

\* ------------------------------------------------------------- the remote panel

n1 == <<"n", "1">>
n2 == <<"n", "2">>
u1 == <<"u", "1">>
u2 == <<"u", "2">>
u3 == <<"u", "3">>

\* The instances a node may hold: unique ids belong to one node for good.
Hosted(node_uuid) ==
    IF node_uuid = n1 THEN {u1, u3} ELSE IF node_uuid = n2 THEN {u2} ELSE {}

\* The elements a node's answer may list, with the nicknames of world W.
RawInstances(node_uuid, W) ==
    {[nickname |-> nk, instanceUuid |-> u] : nk \in W.nicknames, u \in Hosted(node_uuid)}

\* A node's answer lists any of its instances, each once, in any order.
Inventories(node_uuid, W) ==
    {q \in UNION {[1..k -> RawInstances(node_uuid, W)] :
                     k \in 0..Cardinality(Hosted(node_uuid))} :
        \A i, j \in DOMAIN q : i # j => q[i].instanceUuid # q[j].instanceUuid}

DataBlocks(node_uuid, W) ==
    {[shape |-> "dict", data |-> q] : q \in Inventories(node_uuid, W)}
    \cup {[shape |-> "list", list |-> q] :
            q \in IF "list" \in W.shapes THEN Inventories(node_uuid, W) ELSE {}}

\* The bodies of the panel's 200 answers to a request.
OkBodies(request, W) ==
    IF request.endpoint = "/overview"
    THEN {Result(200, [remote |-> ns], "") : ns \in W.node_lists}
    ELSE IF request.endpoint = "/service/remote_service_instances"
    THEN {Result(200, block, "") : block \in DataBlocks(request.daemonId, W)}
    ELSE {Result(200, <<>>, "")}

\* Every exchange a request may come to in world W: the panel's 200 answers,
\* the failures of the world and, where the world has them, answers of another
\* HTTP status whose JSON body is that of a 200 answer.
Exchanges(request, W) ==
    {HttpResponse(200, TRUE, body) : body \in OkBodies(request, W)}
    \cup W.failures
    \cup {HttpResponse(status_code, TRUE, body) :
            status_code \in DictGet(W, "misreported", {}),
            body \in OkBodies(request, W)}

\* ------------------------------------------------------------------------ state

VARIABLES
    instance_data,   \* MCSMPlugin.instance_data
    cooldowns,       \* InstanceCooldownManager.cooldowns
    now,             \* time.time()
    pc,              \* where each running handler is suspended
    identifier,      \* the handler's parameter
    ids,             \* the handler's (daemon_id, instance_id)
    nodes,           \* mcsm_list: the nodes still to query, the first being queried
    all_instances,   \* mcsm_list: all_instances
    req,             \* the request a handler awaits
    resp,            \* what make_mcsm_request returns to it, once it is there
    reply,           \* the handler's last plain_result
    detail,          \* the values that plain_result is formatted with
    http_status      \* response.status_code of the exchange that gave resp

vars == <<instance_data, cooldowns, now, pc, identifier, ids, nodes,
          all_instances, req, resp, reply, detail, http_status>>

locals == <<identifier, ids, nodes, all_instances>>

\* The handlers that may run at the same time.
Procs == {"p1", "p2"}

\* time.time() when the plugin is constructed: seconds since 1970, far above the
\* cooldown window.
StartTime == 10 * CooldownWindow

NoReq == [endpoint |-> "", daemonId |-> <<>>, uuid |-> <<>>]

NoResp == Result(0, <<>>, "")

\* A plain_result formatted with nothing: no error string, no figures, no line
\* of a node shown as online.
NoDetail == [error |-> "", running |-> 0, total |-> 0, online |-> 0]

\* result.get('error', default): the key is missing from a result without error.
ErrorOr(result, default) == IF result.error = "" THEN default ELSE result.error

Request(endpoint, daemonId, uuid) ==
    [endpoint |-> endpoint, daemonId |-> daemonId, uuid |-> uuid]

Init ==
    /\ instance_data = EmptyCache
    /\ cooldowns = EmptyDict
    /\ now = StartTime
    /\ pc = [p \in Procs |-> "idle"]
    /\ identifier = [p \in Procs |-> <<>>]
    /\ ids = [p \in Procs |-> None]
    /\ nodes = [p \in Procs |-> <<>>]
    /\ all_instances = [p \in Procs |-> <<>>]
    /\ req = [p \in Procs |-> NoReq]
    /\ resp = [p \in Procs |-> NoResp]
    /\ reply = [p \in Procs |-> ""]
    /\ detail = [p \in Procs |-> NoDetail]
    /\ http_status = [p \in Procs |-> 0]

\* The handler sends a request and is suspended at `at` until the result is there.
Await(p, at, request) ==
    /\ pc' = [pc EXCEPT ![p] = at]
    /\ req' = [req EXCEPT ![p] = request]
    /\ resp' = [resp EXCEPT ![p] = NoResp]
    /\ http_status' = [http_status EXCEPT ![p] = 0]

\* The handler yields its last plain_result, formatted with the values d.
YieldWith(p, text, d) ==
    /\ pc' = [pc EXCEPT ![p] = "yielded"]
    /\ req' = [req EXCEPT ![p] = NoReq]
    /\ resp' = [resp EXCEPT ![p] = NoResp]
    /\ http_status' = [http_status EXCEPT ![p] = 0]
    /\ reply' = [reply EXCEPT ![p] = text]
    /\ detail' = [detail EXCEPT ![p] = d]

\* The handler yields its last plain_result.
Yield(p, text) == YieldWith(p, text, NoDetail)

Arrived(p, at) == pc[p] = at /\ resp[p].status # 0

\* The panel, or the transport, settles the request handler p awaits.
RemoteRespond(p, W) ==
    /\ req[p] # NoReq
    /\ resp[p].status = 0
    /\ \E outcome \in Exchanges(req[p], W) :
          /\ resp' = [resp EXCEPT ![p] = make_mcsm_request(outcome)]
          /\ http_status' = [http_status EXCEPT ![p] = outcome.status_code]
    /\ UNCHANGED <<instance_data, cooldowns, now, pc, locals, req, reply, detail>>

\* The generator is exhausted: the handler is over.
HandlerReturn(p) ==
    /\ pc[p] = "yielded"
    /\ pc' = [pc EXCEPT ![p] = "idle"]
    /\ identifier' = [identifier EXCEPT ![p] = <<>>]
    /\ ids' = [ids EXCEPT ![p] = None]
    /\ nodes' = [nodes EXCEPT ![p] = <<>>]
    /\ all_instances' = [all_instances EXCEPT ![p] = <<>>]
    /\ reply' = [reply EXCEPT ![p] = ""]
    /\ detail' = [detail EXCEPT ![p] = NoDetail]
    /\ UNCHANGED <<instance_data, cooldowns, now, req, resp, http_status>>

\* The clock advances by d, up to the end of the modelled time.
Tick(d) ==
    /\ now + d <= StartTime + MaxElapsed
    /\ now' = now + d
    /\ UNCHANGED <<instance_data, cooldowns, pc, locals, req, resp, reply, detail,
                   http_status>>

\* ------------------------------------------------------------------- permissions

\* is_admin_or_authorized with authorized_users a single string: 'in' looks
\* for the sender id inside it.
is_admin_or_authorized_substring(event, authorized_users) ==
    IF event.is_admin THEN TRUE
    ELSE \E k \in DOMAIN authorized_users :
            \E i, j \in DOMAIN authorized_users[k] :
                SubSeq(authorized_users[k], i, j) = StrOf(event.sender_id)

\* is_admin_or_authorized: event.is_admin(), or str(event.get_sender_id()) in
\* the list authorized_users of the configuration.
is_admin_or_authorized(event, authorized_users) ==
    IF event.is_admin THEN TRUE
    ELSE StrOf(event.sender_id) \in Range(authorized_users)

\* --------------------------------------------------------------------- mcsm_list

\* /mcsm list up to the await of /overview. `permitted` is what
\* is_admin_or_authorized answers for the sender.
McsmList(p, permitted) ==
    /\ pc[p] = "idle"
    /\ IF ~permitted
       THEN Yield(p, "denied")
       ELSE /\ Await(p, "list_overview", Request("/overview", <<>>, <<>>))
            /\ UNCHANGED <<reply, detail>>
    /\ UNCHANGED <<instance_data, cooldowns, now, locals>>

\* McsmListOverview emptying the cache when there are no nodes.
McsmListOverviewClears(p) ==
    /\ Arrived(p, "list_overview")
    /\ LET found == IF resp[p].status = 200 THEN resp[p].data.remote ELSE <<>>
       IN  IF found = <<>>
           THEN /\ YieldWith(p, "no_nodes",
                              [NoDetail EXCEPT
                                  !.error = ErrorOr(resp[p], "unknown error")])
                /\ instance_data' = EmptyCache
                /\ UNCHANGED nodes
           ELSE /\ nodes' = [nodes EXCEPT ![p] = found]
                /\ Await(p, "list_instances",
                         Request("/service/remote_service_instances",
                                 Head(found).uuid, <<>>))
                /\ UNCHANGED <<instance_data, reply, detail>>
    /\ UNCHANGED <<cooldowns, now, identifier, ids, all_instances>>

\* From the answer to /overview to the await of the first node's instances.
McsmListOverview(p) ==
    /\ Arrived(p, "list_overview")
    /\ LET found == IF resp[p].status = 200 THEN resp[p].data.remote ELSE <<>>
       IN  IF found = <<>>
           THEN /\ YieldWith(p, "no_nodes",
                              [NoDetail EXCEPT
                                  !.error = ErrorOr(resp[p], "unknown error")])
                /\ UNCHANGED nodes
           ELSE /\ nodes' = [nodes EXCEPT ![p] = found]
                /\ Await(p, "list_instances",
                         Request("/service/remote_service_instances",
                                 Head(found).uuid, <<>>))
                /\ UNCHANGED <<reply, detail>>
    /\ UNCHANGED <<instance_data, cooldowns, now, identifier, ids, all_instances>>

\* McsmListInstances giving up the refresh at a node whose answer is not 200.
McsmListInstancesAbort(p) ==
    /\ Arrived(p, "list_instances")
    /\ LET node_uuid == Head(nodes[p]).uuid
           collected == all_instances[p] \o ExtractAll(resp[p].data, node_uuid)
           rest == Tail(nodes[p])
       IN  IF resp[p].status # 200
           THEN /\ Yield(p, "failed")
                /\ UNCHANGED <<instance_data, nodes, all_instances>>
           ELSE /\ nodes' = [nodes EXCEPT ![p] = rest]
                /\ IF rest # <<>>
                   THEN /\ all_instances' = [all_instances EXCEPT ![p] = collected]
                        /\ Await(p, "list_instances",
                                 Request("/service/remote_service_instances",
                                         Head(rest).uuid, <<>>))
                        /\ UNCHANGED <<instance_data, reply, detail>>
                   ELSE /\ all_instances' =
                               [all_instances EXCEPT ![p] = SortByName(collected)]
                        /\ instance_data' = RebuildCache(instance_data, collected)
                        /\ Yield(p, "listed")
    /\ UNCHANGED <<cooldowns, now, identifier, ids>>

\* From a node's answer to the await of the next node's instances or, after the
\* last node, through the sort and the rebuilding of the cache to the last yield.
McsmListInstances(p) ==
    /\ Arrived(p, "list_instances")
    /\ LET node_uuid == Head(nodes[p]).uuid
           collected ==
               IF resp[p].status # 200 THEN all_instances[p]
               ELSE all_instances[p] \o ExtractAll(resp[p].data, node_uuid)
           rest == Tail(nodes[p])
       IN  /\ nodes' = [nodes EXCEPT ![p] = rest]
           /\ IF rest # <<>>
              THEN /\ all_instances' = [all_instances EXCEPT ![p] = collected]
                   /\ Await(p, "list_instances",
                            Request("/service/remote_service_instances",
                                    Head(rest).uuid, <<>>))
                   /\ UNCHANGED <<instance_data, reply, detail>>
              ELSE /\ all_instances' =
                          [all_instances EXCEPT ![p] = SortByName(collected)]
                   /\ instance_data' = RebuildCache(instance_data, collected)
                   /\ Yield(p, "listed")
    /\ UNCHANGED <<cooldowns, now, identifier, ids>>

\* ----------------------------------------------------- mcsm_start and mcsm_stop

\* The text of a failed lookup: the unstripped identifier is looked up in
\* ambiguous_names.
LookupFailure(data, raw) ==
    IF raw \in data.ambiguous_names THEN "ambiguous" ELSE "not_found"

\* /mcsm start up to the await of /protected_instance/open.
McsmStart(p, raw, permitted) ==
    /\ pc[p] = "idle"
    /\ identifier' = [identifier EXCEPT ![p] = raw]
    /\ IF ~permitted
       THEN /\ Yield(p, "denied")
            /\ UNCHANGED ids
       ELSE LET found == GetInstanceByIdentifier(instance_data, raw)
            IN  /\ ids' = [ids EXCEPT ![p] = found]
                /\ IF found = None \/ found = IndexError
                   THEN Yield(p, IF found = None
                                 THEN LookupFailure(instance_data, raw)
                                 ELSE "raised")
                   ELSE IF check_cooldown(cooldowns, now, found[2])
                   THEN Yield(p, "cooling")
                   ELSE /\ Await(p, "start_open",
                                 Request("/protected_instance/open",
                                         found[1], found[2]))
                        /\ UNCHANGED <<reply, detail>>
    /\ UNCHANGED <<instance_data, cooldowns, now, nodes, all_instances>>

\* McsmStartResult recording the cooldown under the identifier of the command.
McsmStartResultKeyedByIdentifier(p) ==
    /\ Arrived(p, "start_open")
    /\ IF resp[p].status # 200
       THEN /\ Yield(p, "failed")
            /\ UNCHANGED cooldowns
       ELSE /\ cooldowns' = set_cooldown(cooldowns, now, Strip(identifier[p]))
            /\ Yield(p, "sent")
    /\ UNCHANGED <<instance_data, now, locals>>

\* From the answer to /protected_instance/open to the last yield.
McsmStartResult(p) ==
    /\ Arrived(p, "start_open")
    /\ IF resp[p].status # 200
       THEN /\ Yield(p, "failed")
            /\ UNCHANGED cooldowns
       ELSE /\ cooldowns' = set_cooldown(cooldowns, now, ids[p][2])
            /\ Yield(p, "sent")
    /\ UNCHANGED <<instance_data, now, locals>>

\* McsmStop without the cooldown check between the lookup and the request.
McsmStopUnchecked(p, raw, permitted) ==
    /\ pc[p] = "idle"
    /\ identifier' = [identifier EXCEPT ![p] = raw]
    /\ IF ~permitted
       THEN /\ Yield(p, "denied")
            /\ UNCHANGED ids
       ELSE LET found == GetInstanceByIdentifier(instance_data, raw)
            IN  /\ ids' = [ids EXCEPT ![p] = found]
                /\ IF found = None \/ found = IndexError
                   THEN Yield(p, IF found = None
                                 THEN LookupFailure(instance_data, raw)
                                 ELSE "raised")
                   ELSE /\ Await(p, "stop_stop",
                                 Request("/protected_instance/stop",
                                         found[1], found[2]))
                        /\ UNCHANGED <<reply, detail>>
    /\ UNCHANGED <<instance_data, cooldowns, now, nodes, all_instances>>

\* /mcsm stop up to the await of /protected_instance/stop.
McsmStop(p, raw, permitted) ==
    /\ pc[p] = "idle"
    /\ identifier' = [identifier EXCEPT ![p] = raw]
    /\ IF ~permitted
       THEN /\ Yield(p, "denied")
            /\ UNCHANGED ids
       ELSE LET found == GetInstanceByIdentifier(instance_data, raw)
            IN  /\ ids' = [ids EXCEPT ![p] = found]
                /\ IF found = None \/ found = IndexError
                   THEN Yield(p, IF found = None
                                 THEN LookupFailure(instance_data, raw)
                                 ELSE "raised")
                   ELSE IF check_cooldown(cooldowns, now, found[2])
                   THEN Yield(p, "cooling")
                   ELSE /\ Await(p, "stop_stop",
                                 Request("/protected_instance/stop",
                                         found[1], found[2]))
                        /\ UNCHANGED <<reply, detail>>
    /\ UNCHANGED <<instance_data, cooldowns, now, nodes, all_instances>>

\* McsmStopResult recording the cooldown before it looks at the status.
McsmStopResultAlwaysRecords(p) ==
    /\ Arrived(p, "stop_stop")
    /\ cooldowns' = set_cooldown(cooldowns, now, ids[p][2])
    /\ IF resp[p].status # 200
       THEN Yield(p, "failed")
       ELSE Yield(p, "sent")
    /\ UNCHANGED <<instance_data, now, locals>>

\* McsmStopResult dropping the cache after a stop that was sent.
McsmStopResultForgets(p) ==
    /\ Arrived(p, "stop_stop")
    /\ IF resp[p].status # 200
       THEN /\ Yield(p, "failed")
            /\ UNCHANGED <<cooldowns, instance_data>>
       ELSE /\ cooldowns' = set_cooldown(cooldowns, now, ids[p][2])
            /\ instance_data' = EmptyCache
            /\ Yield(p, "sent")
    /\ UNCHANGED <<now, locals>>

\* From the answer to /protected_instance/stop to the last yield.
McsmStopResult(p) ==
    /\ Arrived(p, "stop_stop")
    /\ IF resp[p].status # 200
       THEN /\ Yield(p, "failed")
            /\ UNCHANGED cooldowns
       ELSE /\ cooldowns' = set_cooldown(cooldowns, now, ids[p][2])
            /\ Yield(p, "sent")
    /\ UNCHANGED <<instance_data, now, locals>>

\* ---------------------------------------------------------------------- mcsm_cmd

\* McsmCmd with the cooldown check of mcsm_start after the lookup.
McsmCmdCooldownChecked(p, raw, complete, permitted) ==
    /\ pc[p] = "idle"
    /\ identifier' = [identifier EXCEPT ![p] = raw]
    /\ IF ~permitted
       THEN /\ Yield(p, "denied")
            /\ UNCHANGED ids
       ELSE IF ~complete
       THEN /\ Yield(p, "usage")
            /\ UNCHANGED ids
       ELSE LET found == GetInstanceByIdentifier(instance_data, raw)
            IN  /\ ids' = [ids EXCEPT ![p] = found]
                /\ IF found = None \/ found = IndexError
                   THEN Yield(p, IF found = None
                                 THEN LookupFailure(instance_data, raw)
                                 ELSE "raised")
                   ELSE IF check_cooldown(cooldowns, now, found[2])
                   THEN Yield(p, "cooling")
                   ELSE /\ Await(p, "cmd_command",
                                 Request("/protected_instance/command",
                                         found[1], found[2]))
                        /\ UNCHANGED <<reply, detail>>
    /\ UNCHANGED <<instance_data, cooldowns, now, nodes, all_instances>>

\* /mcsm cmd up to the await of /protected_instance/command. `complete` is whether
\* the message holds a command text after the identifier.
McsmCmd(p, raw, complete, permitted) ==
    /\ pc[p] = "idle"
    /\ identifier' = [identifier EXCEPT ![p] = raw]
    /\ IF ~permitted
       THEN /\ Yield(p, "denied")
            /\ UNCHANGED ids
       ELSE IF ~complete
       THEN /\ Yield(p, "usage")
            /\ UNCHANGED ids
       ELSE LET found == GetInstanceByIdentifier(instance_data, raw)
            IN  /\ ids' = [ids EXCEPT ![p] = found]
                /\ IF found = None \/ found = IndexError
                   THEN Yield(p, IF found = None
                                 THEN LookupFailure(instance_data, raw)
                                 ELSE "raised")
                   ELSE /\ Await(p, "cmd_command",
                                 Request("/protected_instance/command",
                                         found[1], found[2]))
                        /\ UNCHANGED <<reply, detail>>
    /\ UNCHANGED <<instance_data, cooldowns, now, nodes, all_instances>>

\* From the answer to /protected_instance/command to asyncio.sleep(1).
McsmCmdResult(p) ==
    /\ Arrived(p, "cmd_command")
    /\ IF resp[p].status # 200
       THEN Yield(p, "failed")
       ELSE /\ pc' = [pc EXCEPT ![p] = "cmd_sleep"]
            /\ req' = [req EXCEPT ![p] = NoReq]
            /\ resp' = [resp EXCEPT ![p] = NoResp]
            /\ http_status' = [http_status EXCEPT ![p] = 0]
            /\ UNCHANGED <<reply, detail>>
    /\ UNCHANGED <<instance_data, cooldowns, now, locals>>

\* From the end of the sleep to the await of /protected_instance/outputlog.
McsmCmdSlept(p) ==
    /\ pc[p] = "cmd_sleep"
    /\ Await(p, "cmd_outputlog",
             Request("/protected_instance/outputlog", ids[p][1], ids[p][2]))
    /\ UNCHANGED <<instance_data, cooldowns, now, locals, reply, detail>>

\* From the answer to /protected_instance/outputlog to the last yield.
McsmCmdOutput(p) ==
    /\ Arrived(p, "cmd_outputlog")
    /\ Yield(p, "sent")
    /\ UNCHANGED <<instance_data, cooldowns, now, locals>>

\* ------------------------------------------------------------------ mcsm_status

\* node.get("instance", {}) of one node of the overview.
InstInfo(node) == DictGet(node, "instance", EmptyDict)

\* SumFigure adding the figures of the available nodes only.
RECURSIVE SumFigureAvailableOnly(_, _)
SumFigureAvailableOnly(remote, key) ==
    IF remote = <<>> THEN 0
    ELSE (IF DictGet(Head(remote), "available", FALSE)
          THEN DictGet(InstInfo(Head(remote)), key, 0) ELSE 0)
         + SumFigureAvailableOnly(Tail(remote), key)

\* The loop over data["remote"] adding inst_info.get(key, 0) of every node.
RECURSIVE SumFigure(_, _)
SumFigure(remote, key) ==
    IF remote = <<>> THEN 0
    ELSE DictGet(InstInfo(Head(remote)), key, 0) + SumFigure(Tail(remote), key)

\* How many of the nodes' lines in the text show the node as online: those
\* with a true node.get('available').
RECURSIVE OnlineLines(_)
OnlineLines(remote) ==
    IF remote = <<>> THEN 0
    ELSE (IF DictGet(Head(remote), "available", FALSE) THEN 1 ELSE 0)
         + OnlineLines(Tail(remote))

\* running_instances and total_instances after the loop, and the nodes' lines;
\* all stay 0 when the payload has no "remote".
StatusFigures(data) ==
    IF "remote" \in DOMAIN data
    THEN [NoDetail EXCEPT !.running = SumFigure(data.remote, "running"),
                          !.total = SumFigure(data.remote, "total"),
                          !.online = OnlineLines(data.remote)]
    ELSE NoDetail

\* /mcsm status up to the await of /overview.
McsmStatus(p, permitted) ==
    /\ pc[p] = "idle"
    /\ IF ~permitted
       THEN Yield(p, "denied")
       ELSE /\ Await(p, "status_overview", Request("/overview", <<>>, <<>>))
            /\ UNCHANGED <<reply, detail>>
    /\ UNCHANGED <<instance_data, cooldowns, now, locals>>

\* From the answer to /overview to the last yield: the failure text, or the
\* summary with the two sums and the nodes' lines, of which only the
\* online mark is kept.  The node counts, versions and times are left out.
McsmStatusOverview(p) ==
    /\ Arrived(p, "status_overview")
    /\ IF resp[p].status # 200
       THEN YieldWith(p, "failed",
                      [NoDetail EXCEPT
                          !.error = ErrorOr(resp[p], "unknown connection error")])
       ELSE YieldWith(p, "status", StatusFigures(resp[p].data))
    /\ UNCHANGED <<instance_data, cooldowns, now, locals>>

\* ---------------------------------------------------------------- specifications

Node(node_uuid) == [uuid |-> node_uuid]

\* The position strings "0" .. str(MaxPosition).
PositionStrings == {StrOf(k) : k \in 0..MaxPosition}

\* Two operators at a time, every handler, against a panel with one node whose
\* instances u1 and u3 are both called A: the name is ambiguous when both are
\* listed.  The clock advances by a whole cooldown window.
World ==
    [nicknames |-> {<<"A">>},
     shapes |-> {"dict"},
     node_lists |-> {<<>>, <<Node(n1)>>},
     failures |-> {HttpResponse(503, FALSE, <<>>)},
     identifiers |-> {<<"1">>, <<"A">>},
     permitted |-> BOOLEAN,
     steps |-> {CooldownWindow}]

Command(p, W) ==
    \/ \E permitted \in W.permitted : McsmList(p, permitted)
    \/ \E raw \in W.identifiers, permitted \in W.permitted :
          McsmStart(p, raw, permitted)
    \/ \E raw \in W.identifiers, permitted \in W.permitted :
          McsmStop(p, raw, permitted)
    \/ \E raw \in W.identifiers, complete \in BOOLEAN, permitted \in W.permitted :
          McsmCmd(p, raw, complete, permitted)

Handle(p, W) ==
    \/ Command(p, W)
    \/ McsmListOverview(p)
    \/ McsmListInstances(p)
    \/ McsmStartResult(p)
    \/ McsmStopResult(p)
    \/ McsmCmdResult(p)
    \/ McsmCmdSlept(p)
    \/ McsmCmdOutput(p)
    \/ RemoteRespond(p, W)
    \/ HandlerReturn(p)

Next ==
    \/ \E p \in Procs : Handle(p, World)
    \/ \E d \in World.steps : Tick(d)

Spec == Init /\ [][Next]_vars

\* One operator at a time refreshing the directory against a panel with two
\* nodes: the names are equal or not, all digits ("2"), the unique id of another
\* instance (u2); a node's answer is a dict or a bare list, or fails.
DirectoryWorld ==
    [nicknames |-> {<<"A">>, <<"B">>, <<"2">>, u2},
     shapes |-> {"dict", "list"},
     node_lists |-> {<<>>, <<Node(n1), Node(n2)>>, <<Node(n2), Node(n1)>>},
     failures |-> {HttpResponse(503, FALSE, <<>>)},
     identifiers |-> {},
     permitted |-> BOOLEAN,
     steps |-> {}]

NextDirectory ==
    \/ \E permitted \in DirectoryWorld.permitted : McsmList("p1", permitted)
    \/ McsmListOverview("p1")
    \/ McsmListInstances("p1")
    \/ RemoteRespond("p1", DirectoryWorld)
    \/ HandlerReturn("p1")

SpecDirectory == Init /\ [][NextDirectory]_vars

\* One operator starting and stopping the instances of one node, called A or
\* without nickname, by position, by name and by unique id, while the clock
\* advances by single time units.
CooldownWorld ==
    [nicknames |-> {<<"A">>, <<>>},
     shapes |-> {"dict"},
     node_lists |-> {<<Node(n1)>>},
     failures |-> {HttpResponse(503, FALSE, <<>>)},
     identifiers |-> {<<"1">>, <<"A">>, u3},
     permitted |-> {TRUE},
     steps |-> {1}]

NextCooldown ==
    \/ \E permitted \in CooldownWorld.permitted : McsmList("p1", permitted)
    \/ McsmListOverview("p1")
    \/ McsmListInstances("p1")
    \/ \E raw \in CooldownWorld.identifiers, permitted \in CooldownWorld.permitted :
          McsmStart("p1", raw, permitted)
    \/ McsmStartResult("p1")
    \/ \E raw \in CooldownWorld.identifiers, permitted \in CooldownWorld.permitted :
          McsmStop("p1", raw, permitted)
    \/ McsmStopResult("p1")
    \/ RemoteRespond("p1", CooldownWorld)
    \/ HandlerReturn("p1")
    \/ \E d \in CooldownWorld.steps : Tick(d)

SpecCooldown == Init /\ [][NextCooldown]_vars

\* One operator asking for the status and refreshing the directory against a
\* panel whose overview lists up to two nodes, available or not, each with its
\* "instance" figures present, partly present or missing.
InstInfos ==
    {EmptyDict}
    \cup {[total |-> t] : t \in 0..MaxFigure}
    \cup {[running |-> r] : r \in 0..MaxFigure}
    \cup {[running |-> r, total |-> t] : r \in 0..MaxFigure, t \in 0..MaxFigure}

StatusNodes(node_uuid) ==
    {[uuid |-> node_uuid, available |-> a] : a \in BOOLEAN}
    \cup {[uuid |-> node_uuid, available |-> a, instance |-> info] :
            a \in BOOLEAN, info \in InstInfos}

StatusWorld ==
    [nicknames |-> {<<"A">>},
     shapes |-> {"dict"},
     node_lists |-> {<<>>}
                    \cup {<<a>> : a \in StatusNodes(n1)}
                    \cup {<<a, b>> : a \in StatusNodes(n1), b \in StatusNodes(n2)},
     failures |-> {HttpResponse(503, FALSE, <<>>)},
     identifiers |-> {},
     permitted |-> BOOLEAN,
     steps |-> {}]

NextStatus ==
    \/ \E permitted \in StatusWorld.permitted : McsmStatus("p1", permitted)
    \/ McsmStatusOverview("p1")
    \/ \E permitted \in StatusWorld.permitted : McsmList("p1", permitted)
    \/ McsmListOverview("p1")
    \/ McsmListInstances("p1")
    \/ RemoteRespond("p1", StatusWorld)
    \/ HandlerReturn("p1")

SpecStatus == Init /\ [][NextStatus]_vars

\* One operator refreshing, starting and sending commands while the exchange of
\* a request comes to every class of outcome: an answer with status 200 or
\* another status, its body JSON or not, and the three kinds of exception.
ClientWorld ==
    [nicknames |-> {<<"A">>},
     shapes |-> {"dict"},
     node_lists |-> {<<>>, <<Node(n1)>>},
     failures |-> {HttpRaise("ConnectTimeout"), HttpRaise("ReadTimeout"),
                   HttpRaise("Exception"),
                   HttpResponse(503, FALSE, <<>>),
                   HttpResponse(200, FALSE, <<>>),
                   HttpResponse(403, TRUE, Result(403, <<>>, "forbidden"))},
     identifiers |-> {<<"1">>},
     permitted |-> {TRUE},
     steps |-> {}]

NextClient ==
    \/ \E permitted \in ClientWorld.permitted : McsmList("p1", permitted)
    \/ McsmListOverview("p1")
    \/ McsmListInstances("p1")
    \/ \E raw \in ClientWorld.identifiers, permitted \in ClientWorld.permitted :
          McsmStart("p1", raw, permitted)
    \/ McsmStartResult("p1")
    \/ \E permitted \in ClientWorld.permitted : McsmStatus("p1", permitted)
    \/ McsmStatusOverview("p1")
    \/ RemoteRespond("p1", ClientWorld)
    \/ HandlerReturn("p1")

SpecClient == Init /\ [][NextClient]_vars

\* One operator at a time, an admin or not, with the sender id 4 or 42, of which
\* 42 is in authorized_users, giving every command against a panel with one
\* node.  A request fails with a body that is no JSON, is answered 500 with a
\* JSON body that says 500, or is answered 500 with the JSON body of a 200
\* answer.
DispatchWorld ==
    [nicknames |-> {<<"A">>},
     shapes |-> {"dict"},
     node_lists |-> {<<Node(n1)>>},
     failures |-> {HttpResponse(503, FALSE, <<>>),
                   HttpResponse(500, TRUE, Result(500, <<>>, "remote error"))},
     misreported |-> {500},
     identifiers |-> {<<"1">>},
     events |-> {[is_admin |-> a, sender_id |-> n] : a \in BOOLEAN, n \in {4, 42}},
     authorized_users |-> <<StrOf(42)>>,
     steps |-> {}]

\* What is_admin_or_authorized answers for the sender of an event.
Permitted(event) == is_admin_or_authorized(event, DispatchWorld.authorized_users)

NextDispatch ==
    \/ \E event \in DispatchWorld.events : McsmList("p1", Permitted(event))
    \/ McsmListOverview("p1")
    \/ McsmListInstances("p1")
    \/ \E raw \in DispatchWorld.identifiers, event \in DispatchWorld.events :
          McsmStart("p1", raw, Permitted(event))
    \/ McsmStartResult("p1")
    \/ \E raw \in DispatchWorld.identifiers, event \in DispatchWorld.events :
          McsmStop("p1", raw, Permitted(event))
    \/ McsmStopResult("p1")
    \/ \E raw \in DispatchWorld.identifiers, complete \in BOOLEAN,
          event \in DispatchWorld.events :
          McsmCmd("p1", raw, complete, Permitted(event))
    \/ McsmCmdResult("p1")
    \/ McsmCmdSlept("p1")
    \/ McsmCmdOutput("p1")
    \/ \E event \in DispatchWorld.events : McsmStatus("p1", Permitted(event))
    \/ McsmStatusOverview("p1")
    \/ RemoteRespond("p1", DispatchWorld)
    \/ HandlerReturn("p1")

SpecDispatch == Init /\ [][NextDispatch]_vars

\* ----------------------------------------------------------------------- claims

Pair(instance) == <<instance.daemon_id, instance.uuid>>

\* How many instances of the snapshot carry the name.
Carriers(data, name) ==
    {i \in DOMAIN data.instances : data.instances[i].name = name}

\* The snapshot is, field by field, the one that the sorted list `sorted` of one
\* refresh gives.
BuiltFrom(data, sorted) ==
    /\ Len(data.instances) = Len(sorted)
    /\ \A i \in DOMAIN sorted :
          /\ data.instances[i].name = sorted[i].name
          /\ data.instances[i].uuid = sorted[i].uuid
          /\ data.instances[i].daemon_id = sorted[i].daemon_id
    /\ data.ambiguous_names =
          {sorted[i].name : i \in
              {i \in DOMAIN sorted :
                  \E j \in DOMAIN sorted : j # i /\ sorted[j].name = sorted[i].name}}
    /\ DOMAIN data.name_to_id =
          {sorted[i].name : i \in DOMAIN sorted} \ data.ambiguous_names
    /\ \A i \in DOMAIN sorted :
          sorted[i].name \notin data.ambiguous_names
             => data.name_to_id[sorted[i].name] = Pair(sorted[i])
    /\ DOMAIN data.uuid_to_id = {sorted[i].uuid : i \in DOMAIN sorted}
    /\ \A i \in DOMAIN sorted : data.uuid_to_id[sorted[i].uuid] = Pair(sorted[i])

\* Handler p ends a refresh in this step.
RefreshEnds(p) == pc[p] = "list_instances" /\ pc'[p] = "yielded"

\* C1: two start commands for the same instance are never both past the cooldown
\* check, awaiting the remote start call.
C1_OneStartPasses ==
    \A p, q \in Procs :
        (p # q /\ pc[p] = "start_open" /\ pc[q] = "start_open")
            => ids[p][2] # ids[q][2]

\* C2: the snapshot is empty at first, and every step that changes it is the end
\* of one refresh and leaves all four fields as that refresh's list gives them:
\* what a handler finds at any point is the whole result of one refresh.
C2_AtomicSwap ==
    /\ instance_data = EmptyCache
    /\ [][instance_data' # instance_data =>
             \E p \in Procs :
                 /\ RefreshEnds(p)
                 /\ BuiltFrom(instance_data', all_instances'[p])]_vars

\* A refresh has ended and left a snapshot of one instance while the other
\* handler, a refresh too, holds an answer that lists two.
C2_Witness ==
    \E p, q \in Procs :
        /\ p # q
        /\ pc[p] = "yielded" /\ reply[p] = "listed"
        /\ Len(instance_data.instances) = 1
        /\ pc[q] = "list_instances" /\ resp[q].status = 200
        /\ Len(InstancesOf(resp[q].data)) = 2

\* What an operator may type for an instance: a position, blanks around it or a
\* zero before it, a nickname of the directory world, a unique id.
DirectoryIdentifiers ==
    PositionStrings
    \cup {<<" ", "2", " ">>, <<"0", "1">>, <<" ", "A">>}
    \cup (DirectoryWorld.nicknames \ {<<>>})
    \cup {u1, u2, u3}

DigitsOnly == {raw \in DirectoryIdentifiers : IsDigit(Strip(raw))}

Instances == instance_data.instances

\* C3: a string of digits whose value is 0 or exceeds the number of instances
\* resolves to nothing, whatever the instances are called.
C3_OutOfRangeNotFound ==
    \A raw \in DigitsOnly :
        (IntOf(Strip(raw)) = 0 \/ IntOf(Strip(raw)) > Len(Instances))
            => GetInstanceByIdentifier(instance_data, raw) = None

\* C4 as stated: the unique id of every instance of the snapshot resolves to that
\* instance.
C4_ByUniqueId ==
    \A i \in DOMAIN Instances :
        GetInstanceByIdentifier(instance_data, Instances[i].uuid)
            = Pair(Instances[i])

\* The unique id is taken for nothing else: it has no blanks around it, it is not
\* the position of an instance, and no other instance is called by it.
Unshadowed(i) ==
    LET u == Instances[i].uuid
    IN  /\ Strip(u) = u
        /\ ~(IsDigit(u) /\ 1 <= IntOf(u) /\ IntOf(u) <= Len(Instances))
        /\ \A j \in DOMAIN Instances : j # i => Instances[j].name # u

\* C4 amended: the unique id of an instance resolves to that instance, whether or
\* not its name is shared, unless the string is also an in-range position or the
\* name of another instance.
C4_ByUniqueIdUnshadowed ==
    \A i \in DOMAIN Instances :
        Unshadowed(i) =>
            GetInstanceByIdentifier(instance_data, Instances[i].uuid)
                = Pair(Instances[i])

\* Two instances share a name, and the unique id of each resolves to it.
C4_Witness ==
    \E i, j \in DOMAIN Instances :
        /\ i # j
        /\ Instances[i].name = Instances[j].name
        /\ Unshadowed(i) /\ Unshadowed(j)
        /\ GetInstanceByIdentifier(instance_data, Instances[i].uuid)
              = Pair(Instances[i])
        /\ GetInstanceByIdentifier(instance_data, Instances[j].uuid)
              = Pair(Instances[j])

\* The identifier is not a number and is the name of two or more instances.
SharedName(data, raw) ==
    ~IsDigit(Strip(raw)) /\ Cardinality(Carriers(data, Strip(raw))) >= 2

\* C5: an identifier that is not a number and is the name of two or more instances
\* of the snapshot resolves to nothing, and a start, stop or cmd handler given it
\* ends at once without a request.
C5_SharedNameRefused ==
    /\ [](\A raw \in World.identifiers \cup DirectoryIdentifiers :
             SharedName(instance_data, raw)
                => GetInstanceByIdentifier(instance_data, raw) = None)
    /\ [][\A p \in Procs :
             (pc[p] = "idle" /\ pc'[p] # "idle"
                 /\ SharedName(instance_data, identifier'[p]))
             => (pc'[p] = "yielded" /\ req'[p] = NoReq
                    /\ reply'[p] \in {"ambiguous", "denied", "usage"})]_vars

\* A handler given the name of two instances has answered that it is ambiguous.
C5_Witness ==
    \E p \in Procs :
        /\ pc[p] = "yielded" /\ reply[p] = "ambiguous"
        /\ SharedName(instance_data, identifier[p])
        /\ req[p] = NoReq

\* C6: a name is in ambiguous_names exactly when two or more instances carry it,
\* no ambiguous name is a key of name_to_id, and every instance with another name
\* is in name_to_id under its name, with its own ids.
C6_NameIndex ==
    /\ \A name \in {Instances[i].name : i \in DOMAIN Instances}
                      \cup instance_data.ambiguous_names :
          name \in instance_data.ambiguous_names
             <=> Cardinality(Carriers(instance_data, name)) >= 2
    /\ instance_data.ambiguous_names \cap DOMAIN instance_data.name_to_id = {}
    /\ \A i \in DOMAIN Instances :
          Instances[i].name \notin instance_data.ambiguous_names
             => /\ Instances[i].name \in DOMAIN instance_data.name_to_id
                /\ instance_data.name_to_id[Instances[i].name] = Pair(Instances[i])

\* A snapshot with an ambiguous name and a name that is not.
C6_Witness ==
    /\ Len(Instances) = 3
    /\ instance_data.ambiguous_names # {}
    /\ DOMAIN instance_data.name_to_id # {}

\* C7: the keys of uuid_to_id contain the unique id of every instance of the
\* snapshot.
C7_IdIndex ==
    {Instances[i].uuid : i \in DOMAIN Instances} \subseteq DOMAIN instance_data.uuid_to_id

\* A snapshot of three instances, two of them of one name.
C7_Witness ==
    /\ Len(Instances) = 3
    /\ instance_data.ambiguous_names # {}
    /\ Cardinality(DOMAIN instance_data.uuid_to_id) = 3

\* C8: the stored positions are 1 .. len(instances) in the order of the sequence,
\* a position string in that range resolves to the instance at that place, and
\* from the step that ends a refresh on these are the places of the list that
\* refresh has sorted.
C8_Positions ==
    /\ [](/\ \A i \in DOMAIN Instances :
                IsDigit(Instances[i].index) /\ IntOf(Instances[i].index) = i
          /\ \A raw \in DigitsOnly :
                IntOf(Strip(raw)) \in DOMAIN Instances
                   => GetInstanceByIdentifier(instance_data, raw)
                         = Pair(Instances[IntOf(Strip(raw))]))
    /\ [][\A p \in Procs :
             RefreshEnds(p) =>
                 /\ Len(instance_data'.instances) = Len(all_instances'[p])
                 /\ \A k \in DOMAIN all_instances'[p] :
                       GetInstanceByIdentifier(instance_data', StrOf(k))
                          = Pair(all_instances'[p][k])]_vars

\* A refresh has ended with three instances, and "3" resolves to the third.
C8_Witness ==
    /\ Len(Instances) = 3
    /\ pc["p1"] = "yielded" /\ reply["p1"] = "listed"
    /\ GetInstanceByIdentifier(instance_data, <<"3">>) = Pair(Instances[3])
    /\ Instances[3].index = <<"3">>

\* What the refresh of handler p has collected, in the order of discovery, when
\* the answer of its last node is there.
Discovery(p) ==
    all_instances[p] \o
        (IF resp[p].status = 200
         THEN ExtractAll(resp[p].data, Head(nodes[p]).uuid) ELSE <<>>)

PlaceIn(list, uuid) == CHOOSE k \in DOMAIN list : list[k].uuid = uuid

\* `result` holds the elements of `discovered` in the order of their names, those
\* of one name in the order of discovery.
StablyOrdered(result, discovered) ==
    /\ Len(result) = Len(discovered)
    /\ \A k \in DOMAIN discovered :
          \E i \in DOMAIN result :
              /\ result[i].uuid = discovered[k].uuid
              /\ result[i].name = discovered[k].name
              /\ result[i].daemon_id = discovered[k].daemon_id
    /\ \A i, j \in DOMAIN result :
          i < j =>
              /\ ~StrLess(result[j].name, result[i].name)
              /\ result[i].name = result[j].name
                    => PlaceIn(discovered, result[i].uuid)
                          < PlaceIn(discovered, result[j].uuid)

\* The fixture: node n1 lists B(u1) and A(u3), node n2 lists A(u2), and the nodes
\* are queried in the order n1, n2.
Fixture ==
    <<[name |-> <<"B">>, uuid |-> u1, daemon_id |-> n1],
      [name |-> <<"A">>, uuid |-> u3, daemon_id |-> n1],
      [name |-> <<"A">>, uuid |-> u2, daemon_id |-> n2]>>

\* The snapshot lists the unique ids in this order, at positions 1, 2, 3, with A
\* ambiguous and B alone in name_to_id.
FixtureResult(data, uuids) ==
    /\ [i \in DOMAIN data.instances |-> data.instances[i].uuid] = uuids
    /\ [i \in DOMAIN data.instances |-> data.instances[i].index]
          = <<<<"1">>, <<"2">>, <<"3">>>>
    /\ data.ambiguous_names = {<<"A">>}
    /\ DOMAIN data.name_to_id = {<<"B">>}

\* C9 as stated: a refresh orders the instances by name, equal names in the order
\* of discovery, and the fixture comes out as A(u2), A(u3), B(u1).
C9_FixtureAsStated ==
    [][\A p \in Procs :
          RefreshEnds(p) =>
              /\ StablyOrdered(instance_data'.instances, Discovery(p))
              /\ Discovery(p) = Fixture
                    => FixtureResult(instance_data', <<u2, u3, u1>>)]_vars

\* C9 amended: a refresh orders the instances by name, equal names in the order
\* of discovery, and the fixture comes out as A(u3), A(u2), B(u1).
C9_StableOrder ==
    [][\A p \in Procs :
          RefreshEnds(p) =>
              /\ StablyOrdered(instance_data'.instances, Discovery(p))
              /\ Discovery(p) = Fixture
                    => FixtureResult(instance_data', <<u3, u2, u1>>)]_vars

\* The refresh of the fixture has ended.
C9_Witness ==
    /\ pc["p1"] = "yielded" /\ reply["p1"] = "listed"
    /\ all_instances["p1"] = <<Fixture[2], Fixture[3], Fixture[1]>>
    /\ FixtureResult(instance_data, <<u3, u2, u1>>)

\* Handler p records an action on instance x in this step: its start or stop
\* has been answered with status 200.
Records(p, x) ==
    /\ pc[p] \in {"start_open", "stop_stop"}
    /\ resp[p].status = 200
    /\ pc'[p] = "yielded"
    /\ ids[p][2] = x

\* C10: an instance is cooling exactly when an action on it has been recorded and
\* fewer than 10 time units have passed since the last one: not before any
\* record, at once after a record, and no longer when 10 units have passed.
C10_Window ==
    /\ [](\A x \in {u1, u2, u3} :
             check_cooldown(cooldowns, now, x)
                <=> (x \in DOMAIN cooldowns /\ now - cooldowns[x] < 10))
    /\ [][\A x \in {u1, u2, u3} :
             /\ (\E p \in Procs : Records(p, x))
                   => (x \in DOMAIN cooldowns' /\ cooldowns'[x] = now'
                         /\ check_cooldown(cooldowns', now', x))
             /\ (x \in DOMAIN cooldowns /\ ~ \E p \in Procs : Records(p, x))
                   => (x \in DOMAIN cooldowns' /\ cooldowns'[x] = cooldowns[x])
             /\ (x \notin DOMAIN cooldowns /\ ~ \E p \in Procs : Records(p, x))
                   => x \notin DOMAIN cooldowns']_vars

\* An instance with a recorded action 10 or more time units old is not cooling,
\* and a start of it has passed the cooldown check again.
C10_Witness ==
    \E p \in Procs, x \in DOMAIN cooldowns :
        /\ now - cooldowns[x] >= 10
        /\ ~check_cooldown(cooldowns, now, x)
        /\ pc[p] = "start_open" /\ ids[p][2] = x


\* The identifier resolves to an instance of the snapshot.
Resolves(data, raw) ==
    GetInstanceByIdentifier(data, raw) \notin {None, IndexError}

\* An action on instance x is recorded and fewer than 10 time units old.
RecordedWithinWindow(x) ==
    x \in DOMAIN cooldowns /\ now - cooldowns[x] < CooldownWindow

CmdPositions == {"cmd_command", "cmd_sleep", "cmd_outputlog"}

\* This step is one of handler p, or the arrival of the result it awaits.
StepOf(p) == pc'[p] # pc[p] \/ resp'[p] # resp[p]

\* C11: a complete /mcsm cmd from a permitted operator whose identifier resolves
\* to an instance issues /protected_instance/command for it, cooling or not, and
\* no step of a cmd handler changes the cooldown map.
C11_CmdExempt ==
    [][\A p \in Procs :
          /\ \A raw \in World.identifiers :
                (McsmCmd(p, raw, TRUE, TRUE) /\ Resolves(instance_data, raw))
                   => LET found == GetInstanceByIdentifier(instance_data, raw)
                      IN  /\ pc'[p] = "cmd_command"
                          /\ req'[p] = Request("/protected_instance/command",
                                               found[1], found[2])
                          /\ reply'[p] # "cooling"
          /\ (StepOf(p) /\ (pc[p] \in CmdPositions \/ pc'[p] \in CmdPositions))
                => cooldowns' = cooldowns]_vars

\* A command is on its way to an instance that is cooling while the other
\* handler, an earlier command to the same instance, still awaits its log.
C11_Witness ==
    \E p, q \in Procs :
        /\ p # q
        /\ pc[p] = "cmd_command" /\ pc[q] = "cmd_outputlog"
        /\ ids[p] = ids[q]
        /\ req[p].endpoint = "/protected_instance/command"
        /\ RecordedWithinWindow(ids[p][2])
        /\ check_cooldown(cooldowns, now, ids[p][2])

\* Handler p resumes in this step with the answer of the node it has asked.
NodeAnswered(p) == Arrived(p, "list_instances") /\ resp'[p] = NoResp

\* The entries of a list of instances, whatever their order.
Entries(list) == {<<list[i].daemon_id, list[i].uuid, list[i].name>> : i \in DOMAIN list}

\* C12: a node whose answer is not 200 adds nothing and does not end the
\* refresh: the next node is asked with what was collected before, and after
\* the last node the snapshot is replaced by one that holds exactly the
\* instances collected from the nodes that answered 200.
C12_FailedNodeSkipped ==
    [][\A p \in Procs :
          NodeAnswered(p) =>
              LET failed == resp[p].status # 200
                  collected ==
                      IF failed THEN Entries(all_instances[p])
                      ELSE Entries(all_instances[p])
                           \cup Entries(ExtractAll(resp[p].data, Head(nodes[p]).uuid))
              IN  IF Len(nodes[p]) > 1
                  THEN /\ pc'[p] = "list_instances"
                       /\ req'[p] = Request("/service/remote_service_instances",
                                            nodes[p][2].uuid, <<>>)
                       /\ Entries(all_instances'[p]) = collected
                       /\ failed => all_instances'[p] = all_instances[p]
                       /\ instance_data' = instance_data
                  ELSE /\ pc'[p] = "yielded" /\ reply'[p] = "listed"
                       /\ Entries(instance_data'.instances) = collected
                       /\ Len(instance_data'.instances) = Cardinality(collected)
                       /\ BuiltFrom(instance_data', all_instances'[p])]_vars

\* The first node's instance is collected, the fetch of the second and last
\* node has come back 503, and the held snapshot still lists an instance of
\* that node.
C12_Witness ==
    /\ pc["p1"] = "list_instances"
    /\ Len(nodes["p1"]) = 1
    /\ resp["p1"].status = 503
    /\ Len(all_instances["p1"]) = 1
    /\ \E i \in DOMAIN Instances : Instances[i].daemon_id = nodes["p1"][1].uuid

\* Handler p resumes in this step with an answer to /overview that failed or
\* lists no node.
NoNodesAnswered(p) ==
    /\ Arrived(p, "list_overview") /\ resp'[p] = NoResp
    /\ (resp[p].status # 200 \/ resp[p].data.remote = <<>>)

StatusByClass(outcome) ==
    IF outcome.kind = "ConnectTimeout" THEN 504
    ELSE IF outcome.kind = "ReadTimeout" THEN 504
    ELSE IF outcome.kind # "response" THEN 500
    ELSE IF outcome.status_code # 200 THEN outcome.status_code
    ELSE 500

Unparseable == {outcome \in ClientWorld.failures : ~outcome.json}

\* C14: for a connect timeout, a read timeout, another exception, an answer
\* that is not 200 with a body that is no JSON and an answer 200 with a body
\* that is no JSON, make_mcsm_request returns a dict with status 504, 504, 500,
\* the HTTP status and 500 and with an error string; and whatever the exchange
\* comes to, the awaiting handler is handed such a dict, never an exception.
C14_ClientNeverRaises ==
    /\ [](\A outcome \in Unparseable :
             /\ make_mcsm_request(outcome).status = StatusByClass(outcome)
             /\ make_mcsm_request(outcome).error # "")
    /\ [][\A p \in Procs :
             (resp[p].status = 0 /\ resp'[p].status # 0) =>
                 /\ DOMAIN resp'[p] = {"status", "data", "error"}
                 /\ \E outcome \in Exchanges(req[p], ClientWorld) :
                       /\ resp'[p] = make_mcsm_request(outcome)
                       /\ outcome \in Unparseable =>
                             /\ resp'[p].status = StatusByClass(outcome)
                             /\ resp'[p].error # ""
                 /\ pc'[p] = pc[p]]_vars

\* A start awaits /protected_instance/open and is handed the result of a read
\* timeout: status 504 with its error string.
C14_Witness ==
    /\ pc["p1"] = "start_open"
    /\ req["p1"].endpoint = "/protected_instance/open"
    /\ resp["p1"] = Result(504, <<>>, "ReadTimeout")

OperatePositions == {"start_open", "stop_stop"} \cup CmdPositions

\* C15: no step of a start, stop or cmd handler, from its entry with the lookup
\* to its last yield, changes the snapshot, and the instance it acts on is the
\* one the held snapshot gives for the identifier at the entry: nothing is
\* fetched for a lookup.
C15_LookupsKeepSnapshot ==
    [][\A p \in Procs :
          /\ (StepOf(p)
                 /\ (pc[p] \in OperatePositions
                        \/ (pc[p] = "idle" /\ pc'[p] # "list_overview")))
                => instance_data' = instance_data
          /\ (pc[p] = "idle" /\ pc'[p] \in OperatePositions)
                => /\ ids'[p] = GetInstanceByIdentifier(instance_data, identifier'[p])
                   /\ req'[p].endpoint \in {"/protected_instance/open",
                                            "/protected_instance/stop",
                                            "/protected_instance/command"}]_vars

\* A start or stop of an instance has been sent and the snapshot still lists
\* the instance, while the answer the panel has given to the other handler's
\* refresh no longer lists it.
C15_Witness ==
    \E p, q \in Procs :
        /\ p # q
        /\ pc[p] = "yielded" /\ reply[p] = "sent"
        /\ \E i \in DOMAIN Instances : Pair(Instances[i]) = ids[p]
        /\ pc[q] = "list_instances" /\ resp[q].status = 200
        /\ \A k \in DOMAIN InstancesOf(resp[q].data) :
              InstancesOf(resp[q].data)[k].instanceUuid # ids[p][2]

\* The figure a node of the overview advertises under the key, 0 when the node
\* has no "instance" or the "instance" has no such key.
Advertised(node, key) ==
    IF "instance" \in DOMAIN node /\ key \in DOMAIN node.instance
    THEN node.instance[key] ELSE 0

RECURSIVE SumAdvertised(_, _, _)
SumAdvertised(remote, places, key) ==
    IF places = {} THEN 0
    ELSE LET k == CHOOSE k \in places : TRUE
         IN  Advertised(remote[k], key) + SumAdvertised(remote, places \ {k}, key)

\* Handler p resumes in this step with a 200 answer to the /overview of status.
StatusAnswered(p) ==
    Arrived(p, "status_overview") /\ resp'[p] = NoResp /\ resp[p].status = 200

\* C16: the running and total counts of the status summary are the sums of
\* the figures advertised by every node of the overview payload, a missing
\* figure counting 0, whether the node is available or not and whatever the
\* snapshot holds; the snapshot is not touched.
C16_FleetCounts ==
    [][\A p \in Procs :
          StatusAnswered(p) =>
              LET remote == resp[p].data.remote
              IN  /\ pc'[p] = "yielded" /\ reply'[p] = "status"
                  /\ detail'[p].running
                        = SumAdvertised(remote, DOMAIN remote, "running")
                  /\ detail'[p].total
                        = SumAdvertised(remote, DOMAIN remote, "total")
                  /\ instance_data' = instance_data]_vars

\* A summary counts as many instances as two nodes can advertise together
\* though it shows no node online, and the snapshot lists a single instance.
C16_Witness ==
    /\ pc["p1"] = "yielded" /\ reply["p1"] = "status"
    /\ detail["p1"].total = 2 * MaxFigure
    /\ detail["p1"].running = 1
    /\ detail["p1"].online = 0
    /\ Len(Instances) = 1

\* C17: the cooldown map is keyed by unique ids.  A start or stop answered 200
\* records the time under the unique id of its instance and under nothing
\* else; a start or stop whose identifier, of whatever form, resolves by the
\* held snapshot to an instance recorded fewer than 10 time units ago is
\* refused as cooling without a request, and one that resolves to another
\* instance, not so recorded, issues its request.
C17_KeyedByUniqueId ==
    /\ [](DOMAIN cooldowns \subseteq {u1, u2, u3})
    /\ [][\A p \in Procs :
             /\ \A x \in {u1, u2, u3} :
                   Records(p, x) => cooldowns' = DictSet(cooldowns, x, now)
             /\ \A raw \in CooldownWorld.identifiers :
                   ((McsmStart(p, raw, TRUE) \/ McsmStop(p, raw, TRUE))
                       /\ Resolves(instance_data, raw))
                   => LET x == GetInstanceByIdentifier(instance_data, raw)[2]
                      IN  IF RecordedWithinWindow(x)
                          THEN /\ pc'[p] = "yielded" /\ reply'[p] = "cooling"
                               /\ req'[p] = NoReq
                          ELSE /\ pc'[p] \in {"start_open", "stop_stop"}
                               /\ req'[p].uuid = x]_vars

\* A command naming u3 by its unique id is refused as cooling late in the
\* window; u3 stands at position 2 of the snapshot, where the position "1"
\* names another instance, which has no record.
C17_Witness ==
    /\ pc["p1"] = "yielded" /\ reply["p1"] = "cooling"
    /\ identifier["p1"] = u3 /\ ids["p1"] = <<n1, u3>>
    /\ Len(Instances) = 2 /\ Instances[2].uuid = u3
    /\ now - cooldowns[u3] = CooldownWindow - 1
    /\ Instances[1].uuid \notin DOMAIN cooldowns

\* C18: a request to /protected_instance/open or /protected_instance/stop is
\* awaited only by a start or stop handler past its checks, for the instance
\* it holds; the step that issues it has resolved the identifier by the held
\* snapshot and found the instance not cooling; and a handler that ends at its
\* entry, at the lookup or at the cooldown check, issues no request and leaves
\* the cooldown map as it is, the refusal "cooling" being given only for an
\* instance that was resolved.
C18_LookupCheckCall ==
    /\ [](\A p \in Procs :
             req[p].endpoint \in {"/protected_instance/open",
                                  "/protected_instance/stop"}
                => /\ pc[p] = (IF req[p].endpoint = "/protected_instance/open"
                               THEN "start_open" ELSE "stop_stop")
                   /\ ids[p] \notin {None, IndexError}
                   /\ req[p].daemonId = ids[p][1] /\ req[p].uuid = ids[p][2])
    /\ [][\A p \in Procs :
             /\ (pc[p] = "idle" /\ pc'[p] \in {"start_open", "stop_stop"})
                   => /\ Resolves(instance_data, identifier'[p])
                      /\ ids'[p] = GetInstanceByIdentifier(instance_data,
                                                           identifier'[p])
                      /\ ~RecordedWithinWindow(ids'[p][2])
                      /\ req'[p].endpoint \in {"/protected_instance/open",
                                               "/protected_instance/stop"}
                      /\ cooldowns' = cooldowns
             /\ (pc[p] = "idle" /\ pc'[p] = "yielded")
                   => /\ req'[p] = NoReq
                      /\ cooldowns' = cooldowns
                      /\ reply'[p] = "cooling"
                            => /\ Resolves(instance_data, identifier'[p])
                               /\ RecordedWithinWindow(ids'[p][2])]_vars

\* A command is refused as cooling, without a request, while the other
\* handler's stop of another instance, which is not cooling, awaits its answer.
C18_Witness ==
    \E p, q \in Procs :
        /\ p # q
        /\ pc[p] = "yielded" /\ reply[p] = "cooling" /\ req[p] = NoReq
        /\ RecordedWithinWindow(ids[p][2])
        /\ pc[q] = "stop_stop" /\ req[q].endpoint = "/protected_instance/stop"
        /\ ids[q] # ids[p]
        /\ ~RecordedWithinWindow(ids[q][2])

\* Every identifier of the two worlds an operator may type.
AnyIdentifier == World.identifiers \cup DirectoryIdentifiers

\* The (daemon_id, uuid) pairs of a list of instances.
Pairs(list) == {Pair(list[i]) : i \in DOMAIN list}

\* C19: the snapshot is empty at first; while it is empty no identifier
\* resolves; whatever resolves, resolves to an instance the snapshot lists;
\* and the end of a refresh leaves in the list and in both indices exactly the
\* instances that refresh has collected, so that an instance of the earlier
\* snapshot that was not collected again is the result of no lookup.
C19_ReplacedNotMerged ==
    /\ instance_data = EmptyCache
    /\ [](\A raw \in AnyIdentifier :
             LET found == GetInstanceByIdentifier(instance_data, raw)
             IN  /\ Instances = <<>> => found = None
                 /\ found # None => found \in Pairs(Instances))
    /\ [][\A p \in Procs :
             RefreshEnds(p) =>
                 /\ Pairs(instance_data'.instances) = Pairs(Discovery(p))
                 /\ {instance_data'.name_to_id[k] :
                        k \in DOMAIN instance_data'.name_to_id}
                       \subseteq Pairs(Discovery(p))
                 /\ {instance_data'.uuid_to_id[k] :
                        k \in DOMAIN instance_data'.uuid_to_id}
                       = Pairs(Discovery(p))
                 /\ \A raw \in AnyIdentifier :
                       GetInstanceByIdentifier(instance_data', raw)
                          \in {None} \cup Pairs(Discovery(p))]_vars

\* A handler has acted on u1, which an earlier snapshot gave it; the refresh
\* the other handler has ended since lists u3 and not u1: the unique id u1
\* resolves to nothing, and the identifier once given for u1 resolves to u3.
C19_Witness ==
    \E p, q \in Procs :
        /\ p # q
        /\ pc[p] = "yielded" /\ reply[p] = "listed"
        /\ pc[q] = "yielded" /\ reply[q] = "sent" /\ ids[q] = <<n1, u1>>
        /\ Pairs(Instances) = {<<n1, u3>>}
        /\ GetInstanceByIdentifier(instance_data, u1) = None
        /\ GetInstanceByIdentifier(instance_data, identifier[q]) = <<n1, u3>>

\* Handler p resumes in this step with the answer to its start or stop request.
OperationAnswered(p) ==
    /\ Arrived(p, "start_open") \/ Arrived(p, "stop_stop")
    /\ resp'[p] = NoResp

\* C20: the cooldown map changes only in the step in which a start or stop
\* handler resumes with an answer of status 200; a handler that resumes with
\* any other status reports the failure and leaves the map as it is, so that
\* its instance, which was not cooling when the command passed the check, is
\* not cooling after the failure.
C20_RecordOnlyOn200 ==
    [][/\ cooldowns' # cooldowns
             => \E p \in Procs :
                   /\ OperationAnswered(p) /\ resp[p].status = 200
                   /\ reply'[p] = "sent"
       /\ \A p \in Procs :
             (OperationAnswered(p) /\ resp[p].status # 200)
                => /\ pc'[p] = "yielded" /\ reply'[p] = "failed"
                   /\ cooldowns' = cooldowns
                   /\ ~check_cooldown(cooldowns', now', ids[p][2])]_vars

\* A start or stop of an instance has failed: the instance is not cooling and
\* the only record of it is that of an earlier action, a window or more ago.
C20_Witness ==
    /\ pc["p1"] = "yielded" /\ reply["p1"] = "failed"
    /\ ids["p1"][2] \in DOMAIN cooldowns
    /\ now - cooldowns[ids["p1"][2]] >= CooldownWindow
    /\ ~check_cooldown(cooldowns, now, ids["p1"][2])

\* Handler p resumes in this step with the answer to its start, stop or
\* command request.
DispatchAnswered(p) ==
    /\ Arrived(p, "start_open") \/ Arrived(p, "stop_stop")
          \/ Arrived(p, "cmd_command")
    /\ resp'[p] = NoResp

\* Handler p takes the answer for a success in this step: it reports that the
\* command was sent, goes on to fetch the log, or records the cooldown.
TakenForSuccess(p) ==
    \/ reply'[p] = "sent"
    \/ pc'[p] = "cmd_sleep"
    \/ cooldowns' # cooldowns

\* C21: a start, stop or cmd handler takes the answer to its request for a
\* success, and a start or stop records the cooldown, only if the HTTP status
\* of the answer was 200, whatever the body of the answer says.
C21_SuccessOnlyOnHttp200 ==
    [][\A p \in Procs :
          (DispatchAnswered(p) /\ TakenForSuccess(p)) => http_status[p] = 200]_vars

\* The senders that are neither admin nor in authorized_users.
Unpermitted ==
    {event \in DispatchWorld.events :
        /\ ~event.is_admin
        /\ \A k \in DOMAIN DispatchWorld.authorized_users :
              DispatchWorld.authorized_users[k] # StrOf(event.sender_id)}

\* This step is the entry of a list, start, stop, cmd or status command that
\* handler p is given by the sender of the event.
EnteredBy(p, event) ==
    \/ McsmList(p, Permitted(event))
    \/ \E raw \in DispatchWorld.identifiers : McsmStart(p, raw, Permitted(event))
    \/ \E raw \in DispatchWorld.identifiers : McsmStop(p, raw, Permitted(event))
    \/ \E raw \in DispatchWorld.identifiers, complete \in BOOLEAN :
          McsmCmd(p, raw, complete, Permitted(event))
    \/ McsmStatus(p, Permitted(event))

\* C22: a list, start, stop, cmd or status command of a sender that is neither
\* admin nor in authorized_users ends at its entry with the refusal: it issues
\* no request and changes neither the snapshot nor the cooldown map, and no
\* handler that has refused ever holds a request.
C22_UnpermittedDoesNothing ==
    /\ [](\A p \in Procs :
             reply[p] = "denied" => (pc[p] = "yielded" /\ req[p] = NoReq))
    /\ [][\A p \in Procs :
             /\ \A event \in Unpermitted :
                   EnteredBy(p, event)
                      => /\ pc'[p] = "yielded" /\ reply'[p] = "denied"
                         /\ req'[p] = NoReq
                         /\ instance_data' = instance_data
                         /\ cooldowns' = cooldowns
             /\ (StepOf(p) /\ reply[p] = "denied")
                   => /\ pc'[p] = "idle" /\ req'[p] = NoReq
                      /\ instance_data' = instance_data
                      /\ cooldowns' = cooldowns]_vars

\* A command has been refused, without a request, while the snapshot lists an
\* instance and the cooldown map holds a record.
C22_Witness ==
    /\ pc["p1"] = "yielded" /\ reply["p1"] = "denied"
    /\ req["p1"] = NoReq
    /\ Instances # <<>>
    /\ DOMAIN cooldowns # {}
=============================================================================
